---- MODULE Spec2Model ----
(***************************************************************************)
(* Retrieval fusion of open_webui/retrieval/utils.py: the cross-collection  *)
(* result merger (merge_and_sort_query_results), the hybrid fan-out         *)
(* coordinator (query_collection_with_hybrid_search), the plain coordinator *)
(* (query_collection) and the per-file controller (get_sources_from_files). *)
(***************************************************************************)
EXTENDS Integers, Sequences, FiniteSets, TLC

VARIABLES
    pc,             \* position of the call being modelled
    query_results,  \* merge_and_sort_query_results: list of per-task result dicts
    k,              \* merge_and_sort_query_results: k
    reverse,        \* merge_and_sort_query_results: reverse
    merged,         \* merge_and_sort_query_results: the returned dict
    collection_names, \* query_collection_with_hybrid_search: collection_names
    queries,        \* query_collection_with_hybrid_search: queries
    k_reranker,     \* query_collection_with_hybrid_search: k_reranker
    r,              \* query_collection_with_hybrid_search: r
    vector_db,      \* open_webui.config.VECTOR_DB
    collection_data, \* query_collection_with_hybrid_search: collection_data
    task_results,   \* query_collection_with_hybrid_search: the futures of the tasks
    completed,      \* history: the tasks in the order in which they completed
    hybrid_return,  \* query_collection_with_hybrid_search: what the call gave the caller
    get_calls,      \* history: the collection names VECTOR_DB_CLIENT.get was called with
    ensemble_docs,  \* compress_documents: documents, what the base retriever handed over
    rerank_scores,  \* compress_documents: scores, one per document
    retrieval,      \* query_doc_with_hybrid_search: the returned dict
    query_texts,    \* generate_multiple: query, a list of texts
    embedding_batch_size, \* get_embedding_function: embedding_batch_size
    batch_start,    \* generate_multiple: i, the start of the next slice
    embeddings,     \* generate_multiple: embeddings
    func_calls,     \* history: the calls of func, each with its slice
    embedding_return, \* generate_multiple: what the call gave the caller
    document_keeps_mapping, \* Document(metadata=m) holds m itself (TRUE) or a copy of m
    workers,        \* query_doc_with_hybrid_search: the position and locals of each running task
    files,          \* get_sources_from_files: files
    hybrid_search,  \* get_sources_from_files: hybrid_search
    file_index,     \* get_sources_from_files: the file the loop is at
    cur_names,      \* get_sources_from_files: collection_names of the file, as iterated
    context,        \* get_sources_from_files: context
    extracted_collections, \* get_sources_from_files: extracted_collections
    relevant_contexts, \* get_sources_from_files: relevant_contexts
    search_log,     \* history: the searches issued and what their tasks did
    sources_return  \* get_sources_from_files: what the call gave the caller

mergeVars == <<query_results, reverse, merged>>
hybridVars == <<collection_names, queries, k_reranker, r, vector_db,
                collection_data, task_results, completed, hybrid_return, get_calls>>
rerankVars == <<ensemble_docs, rerank_scores, retrieval>>
embedVars == <<query_texts, embedding_batch_size, batch_start, embeddings, func_calls,
               embedding_return>>
sharedVars == <<document_keeps_mapping, workers>>
sourcesVars == <<files, hybrid_search, file_index, cur_names, context,
                 extracted_collections, relevant_contexts, search_log, sources_return>>
vars == <<pc, k, mergeVars, hybridVars, rerankVars, embedVars, sharedVars, sourcesVars>>

(***************************************************************************)
(* Bounds of the model.                                                     *)
(***************************************************************************)
\* most candidates over all the result sets handed to one merge
MaxCands == 3
\* most result sets handed to one merge
MaxResultSets == 2
\* largest k of a merge
MaxK == 2
\* most (collection, query) tasks one hybrid call dispatches
MaxTasks == 4
\* most files handed to get_sources_from_files
MaxFiles == 2
\* most queries handed to get_sources_from_files
MaxQueries == 2
\* most texts handed to the embedding function at once
MaxTexts == 4
\* largest embedding_batch_size
MaxBatch == 3

\* the scores (distances) a backend reports
Scores == {1, 2}
\* the passage texts; "a" and "A" differ only in case
Texts == {"a", "A", "b"}

Min(x, y) == IF x <= y THEN x ELSE y

(***************************************************************************)
(* Documents.  A document of a result set is a str or, from a backend that  *)
(* stored no text, not a str (None).                                        *)
(***************************************************************************)
StrDoc(t) == [isstr |-> TRUE, text |-> t]
NoneDoc == [isstr |-> FALSE, text |-> "None"]
Docs == {StrDoc(t) : t \in Texts} \cup {NoneDoc}

\* isinstance(doc, str)
IsStr(document) == document.isstr

\* hashlib.md5(document.encode()).hexdigest()
Md5(document) ==
    CASE document.text = "a" -> "0cc175b9c0f1b6a831c399e269772661"
      [] document.text = "A" -> "7fc56270e7a70fa81a5935b72eacbe29"
      [] document.text = "b" -> "92eb5ffee6ae2fec3ad71c777531578f"

\* None, and the state of a call that has not returned
NoneValue == [none |-> TRUE]
NotReturned == [returned |-> FALSE]

NullResult == NoneValue

\* the empty, well-formed result
EmptyResult == [distances |-> << <<>> >>, documents |-> << <<>> >>, metadatas |-> << <<>> >>]

(***************************************************************************)
(* merge_and_sort_query_results                                             *)
(***************************************************************************)
\* zip(distances, documents, metadatas) stops at the shortest of the three
ZipLen(data) ==
    Min(Len(data.distances[1]), Min(Len(data.documents[1]), Len(data.metadatas[1])))

\* all(isinstance(doc, str) for doc in documents)
AllStr(data) == \A i \in 1..Len(data.documents[1]) : IsStr(data.documents[1][i])

SeenNever(doc_hash, seen_hashes) == FALSE

\* doc_hash in seen_hashes
Seen(doc_hash, seen_hashes) == doc_hash \in seen_hashes

\* a duplicate replaces the entry kept so far when its distance is smaller
AbsorbBest(acc, distance, document, metadata) ==
    LET doc_hash == Md5(document)
        cand == <<distance, document, metadata>>
    IN  IF ~Seen(doc_hash, acc.seen_hashes)
        THEN [seen_hashes |-> acc.seen_hashes \cup {doc_hash},
              combined |-> Append(acc.combined, cand)]
        ELSE [acc EXCEPT !.combined =
                [i \in 1..Len(acc.combined) |->
                    IF acc.combined[i][2] = document /\ distance < acc.combined[i][1]
                    THEN cand ELSE acc.combined[i]]]

\* if doc_hash not in seen_hashes: seen_hashes[doc_hash] = True; combined.append(...)
Absorb(acc, distance, document, metadata) ==
    LET doc_hash == Md5(document)
    IN  IF ~Seen(doc_hash, acc.seen_hashes)
        THEN [seen_hashes |-> acc.seen_hashes \cup {doc_hash},
              combined |-> Append(acc.combined, <<distance, document, metadata>>)]
        ELSE acc

\* the loop over zip(distances, documents, metadatas) of one result set; checkStr
\* is the fallback branch, which skips the documents that are not str
RECURSIVE ScanDocs(_, _, _, _)
ScanDocs(data, i, acc, checkStr) ==
    IF i > ZipLen(data) THEN acc
    ELSE LET distance == data.distances[1][i]
             document == data.documents[1][i]
             metadata == data.metadatas[1][i]
         IN  IF checkStr /\ ~IsStr(document)
             THEN ScanDocs(data, i + 1, acc, checkStr)
             ELSE ScanDocs(data, i + 1, Absorb(acc, distance, document, metadata), checkStr)

\* forgets the hashes of the earlier result sets: dedup within one result set only
RECURSIVE ScanResultsFresh(_, _, _)
ScanResultsFresh(results, n, acc) ==
    IF n > Len(results) THEN acc
    ELSE ScanResultsFresh(results, n + 1,
            ScanDocs(results[n], 1, [acc EXCEPT !.seen_hashes = {}], ~AllStr(results[n])))

\* for data in query_results: ...
RECURSIVE ScanResults(_, _, _)
ScanResults(results, n, acc) ==
    IF n > Len(results) THEN acc
    ELSE ScanResults(results, n + 1, ScanDocs(results[n], 1, acc, ~AllStr(results[n])))

KeyBeforeAscending(x, y, rev) == x <= y

\* the order list.sort gives two keys: x stays before a later y
KeyBefore(x, y, rev) == IF rev THEN x >= y ELSE x <= y

\* where a stable sort puts cand into an already sorted prefix: behind every
\* entry that may stay before it
InsertSorted(sorted, cand, rev) ==
    LET p == Cardinality({j \in 1..Len(sorted) : KeyBefore(sorted[j][1], cand[1], rev)})
    IN  SubSeq(sorted, 1, p) \o <<cand>> \o SubSeq(sorted, p + 1, Len(sorted))

RECURSIVE SortPrefix(_, _, _)
SortPrefix(combined, n, rev) ==
    IF n = 0 THEN <<>>
    ELSE InsertSorted(SortPrefix(combined, n - 1, rev), combined[n], rev)

Reversed(s) == [i \in 1..Len(s) |-> s[Len(s) + 1 - i]]

\* sorts ascending and reverses the list for the descending order
SortThenReverse(combined, rev) ==
    IF rev THEN Reversed(SortPrefix(combined, Len(combined), FALSE))
    ELSE SortPrefix(combined, Len(combined), FALSE)

\* combined.sort(key=lambda x: x[0], reverse=reverse)
ListSort(combined, rev) == SortPrefix(combined, Len(combined), rev)

TruncateOffByOne(combined, kk) == SubSeq(combined, 1, Min(kk + 1, Len(combined)))

\* del combined[k:]
Truncate(combined, kk) ==
    IF kk >= 0 THEN SubSeq(combined, 1, Min(kk, Len(combined)))
    ELSE SubSeq(combined, 1, IF Len(combined) + kk > 0 THEN Len(combined) + kk ELSE 0)

\* sorts the distances on their own and leaves documents and metadatas as combined
merge_sorting_distances_alone(results, kk, rev) ==
    LET combined == ScanResults(results, 1, [seen_hashes |-> {}, combined |-> <<>>]).combined
    IN  IF combined = <<>> THEN EmptyResult
        ELSE LET top == Truncate(ListSort(combined, rev), kk)
                 plain == Truncate(combined, kk)
             IN  [distances |-> << [i \in 1..Len(top) |-> top[i][1]] >>,
                  documents |-> << [i \in 1..Len(plain) |-> plain[i][2]] >>,
                  metadatas |-> << [i \in 1..Len(plain) |-> plain[i][3]] >>]

merge_and_sort_query_results(results, kk, rev) ==
    LET combined == ScanResults(results, 1, [seen_hashes |-> {}, combined |-> <<>>]).combined
    IN  IF combined = <<>> THEN EmptyResult
        ELSE LET top == Truncate(ListSort(combined, rev), kk)
             IN  [distances |-> << [i \in 1..Len(top) |-> top[i][1]] >>,
                  documents |-> << [i \in 1..Len(top) |-> top[i][2]] >>,
                  metadatas |-> << [i \in 1..Len(top) |-> top[i][3]] >>]

(***************************************************************************)
(* The merger on its own: every input within the bounds, then the call.     *)
(***************************************************************************)
RECURSIVE SumSeq(_, _)
SumSeq(s, n) == IF n = 0 THEN 0 ELSE s[n] + SumSeq(s, n - 1)

\* the ways to cut n candidates into at most MaxResultSets result sets
Cuts(n) ==
    {s \in UNION {[1..t -> 0..n] : t \in 0..MaxResultSets} : SumSeq(s, Len(s)) = n}

\* result set t of the input: sizes[t] candidates, starting behind the earlier ones;
\* the metadata of a candidate names its place in the input
ResultSet(dists, docs, sizes, t) ==
    LET off == SumSeq(sizes, t - 1)
    IN  [distances |-> << [j \in 1..sizes[t] |-> dists[off + j]] >>,
         documents |-> << [j \in 1..sizes[t] |-> docs[off + j]] >>,
         metadatas |-> << [j \in 1..sizes[t] |-> [task |-> t, pos |-> j]] >>]

\* the variables of the hybrid coordinator while no hybrid call is modelled
HybridIdle ==
    /\ collection_names = <<>>
    /\ queries = <<>>
    /\ k_reranker = 0
    /\ r = 0
    /\ vector_db = "chroma"
    /\ collection_data = <<>>
    /\ task_results = <<>>
    /\ completed = <<>>
    /\ hybrid_return = NotReturned
    /\ get_calls = <<>>

\* the variables of the embedding function while no call of it is modelled
EmbedIdle ==
    /\ query_texts = <<>>
    /\ embedding_batch_size = 1
    /\ batch_start = 0
    /\ embeddings = <<>>
    /\ func_calls = <<>>
    /\ embedding_return = NotReturned

\* the variables of one re-ranking while none is modelled
RerankIdle ==
    /\ ensemble_docs = <<>>
    /\ rerank_scores = <<>>
    /\ retrieval = NotReturned

\* the variables of the running tasks while no task is modelled step by step
SharedIdle ==
    /\ document_keeps_mapping = FALSE
    /\ workers = <<>>

\* the variables of get_sources_from_files while no such call is modelled
SourcesIdle ==
    /\ files = <<>>
    /\ hybrid_search = FALSE
    /\ file_index = 0
    /\ cur_names = <<>>
    /\ context = NoneValue
    /\ extracted_collections = <<>>
    /\ relevant_contexts = <<>>
    /\ search_log = <<>>
    /\ sources_return = NotReturned

MergeInit ==
    /\ pc = "merge"
    /\ HybridIdle
    /\ RerankIdle
    /\ EmbedIdle
    /\ SharedIdle
    /\ SourcesIdle
    /\ \E n \in 0..MaxCands :
         \E dists \in [1..n -> Scores], docs \in [1..n -> Docs], sizes \in Cuts(n) :
            query_results = [t \in 1..Len(sizes) |-> ResultSet(dists, docs, sizes, t)]
    /\ k \in 0..MaxK
    /\ reverse \in BOOLEAN
    /\ merged = EmptyResult

CallMerge ==
    /\ pc = "merge"
    /\ merged' = merge_and_sort_query_results(query_results, k, reverse)
    /\ pc' = "merged"
    /\ UNCHANGED <<rerankVars, embedVars, sourcesVars, query_results, k, reverse, hybridVars, sharedVars>>

MergeNext == CallMerge

SpecMerge == MergeInit /\ [][MergeNext]_vars

(***************************************************************************)
(* What the claims speak of: the flattened input and first occurrences.     *)
(***************************************************************************)
RECURSIVE FlatInput(_, _)
FlatInput(results, n) ==
    IF n = 0 THEN <<>>
    ELSE FlatInput(results, n - 1) \o
         [j \in 1..Len(results[n].documents[1]) |->
            <<results[n].distances[1][j], results[n].documents[1][j], results[n].metadatas[1][j]>>]

Flat == FlatInput(query_results, Len(query_results))

\* the passages of the input: the texts of its str documents
Passages == {Flat[i][2].text : i \in {j \in 1..Len(Flat) : Flat[j][2].isstr}}

\* the place in the flattened input where the text is first seen
FirstSeen(doc) == CHOOSE i \in 1..Len(Flat) : Flat[i][2] = doc /\ \A j \in 1..(i - 1) : Flat[j][2] # doc

OutLen == Len(merged.documents[1])

\* C1: the merged output holds no two entries with the same passage text
\* (exact, case-sensitive), for every input, k and polarity.
C1_UniquePassages ==
    pc = "merged" =>
        \A i, j \in 1..OutLen :
            i # j => merged.documents[1][i].text # merged.documents[1][j].text

C1_Witness ==
    /\ pc = "merged"
    /\ OutLen >= 2
    /\ Len(Flat) > Cardinality(Passages)
    /\ \E i, j \in 1..Len(Flat) : i < j /\ Flat[i][2] = Flat[j][2] /\ Flat[i][2].isstr

\* C2: for k >= 0 the length of the merged output is min(k, number of unique
\* passages over all the input result sets).
C2_BoundedOutput ==
    (pc = "merged" /\ k >= 0) =>
        /\ OutLen = Min(k, Cardinality(Passages))
        /\ Len(merged.distances[1]) = OutLen
        /\ Len(merged.metadatas[1]) = OutLen

C2_Witness ==
    /\ pc = "merged"
    /\ k >= 1
    /\ Cardinality(Passages) > k
    /\ Len(Flat) > Cardinality(Passages)
    /\ OutLen = k

\* C3: adjacent scores of the output are non-increasing when reverse is true
\* and non-decreasing when it is false.
C3_SortPolarity ==
    pc = "merged" =>
        \A i \in 1..(OutLen - 1) :
            IF reverse THEN merged.distances[1][i] >= merged.distances[1][i + 1]
            ELSE merged.distances[1][i] <= merged.distances[1][i + 1]

C3_Witness ==
    /\ pc = "merged"
    /\ reverse
    /\ OutLen >= 2
    /\ merged.distances[1][1] > merged.distances[1][2]
    /\ FirstSeen(merged.documents[1][1]) > FirstSeen(merged.documents[1][2])

\* C4: for both polarities, two surviving candidates of equal score keep the
\* order in which they were first seen in the flattened input.
C4_StableTies ==
    pc = "merged" =>
        \A i, j \in 1..OutLen :
            (i < j /\ merged.distances[1][i] = merged.distances[1][j])
                => FirstSeen(merged.documents[1][i]) < FirstSeen(merged.documents[1][j])

C4_Witness ==
    /\ pc = "merged"
    /\ reverse
    /\ OutLen >= 2
    /\ merged.distances[1][1] = merged.distances[1][2]

\* C5: an entry of the output carries the score and the metadata of the first
\* occurrence of its passage in the flattened input, also when a later
\* occurrence has a better score.
C5_FirstOccurrenceWins ==
    pc = "merged" =>
        \A i \in 1..OutLen :
            LET f == FirstSeen(merged.documents[1][i])
            IN  /\ merged.distances[1][i] = Flat[f][1]
                /\ merged.metadatas[1][i] = Flat[f][3]

C5_Witness ==
    /\ pc = "merged"
    /\ \E i \in 1..OutLen :
         \E j \in 1..Len(Flat) :
            /\ Flat[j][2] = merged.documents[1][i]
            /\ j > FirstSeen(merged.documents[1][i])
            /\ Flat[j][1] < merged.distances[1][i]
            /\ merged.metadatas[1][i] # Flat[j][3]

\* the documents of the inputs in which a result set comes twice: two passages
\* and a document that is not a str
DuplicateDocs == {StrDoc("a"), StrDoc("b"), NoneDoc}

\* the merger over the inputs drawn from DuplicateDocs
DuplicateInit ==
    /\ pc = "merge"
    /\ HybridIdle
    /\ RerankIdle
    /\ EmbedIdle
    /\ SharedIdle
    /\ SourcesIdle
    /\ \E n \in 0..MaxCands :
         \E dists \in [1..n -> Scores], docs \in [1..n -> DuplicateDocs], sizes \in Cuts(n) :
            query_results = [t \in 1..Len(sizes) |-> ResultSet(dists, docs, sizes, t)]
    /\ k \in 0..MaxK
    /\ reverse \in BOOLEAN
    /\ merged = EmptyResult

SpecDuplicate == DuplicateInit /\ [][MergeNext]_vars

\* the list results with a second occurrence of results[i] put in behind results[p]
WithDuplicate(results, i, p) ==
    SubSeq(results, 1, p) \o <<results[i]>> \o SubSeq(results, p + 1, Len(results))

\* C16: a result set that appears a second time in the input, with the same
\* contents, changes nothing: the merge of the list with the second
\* occurrence is the merge of the list without it, for every k and polarity.
C16_DuplicateSetIdempotent ==
    pc = "merged" =>
        \A i \in 1..Len(query_results) :
            \A p \in i..Len(query_results) :
                merge_and_sort_query_results(WithDuplicate(query_results, i, p), k, reverse)
                    = merged

C16_Witness ==
    /\ pc = "merged"
    /\ Len(query_results) = 2
    /\ ZipLen(query_results[1]) = 2
    /\ AllStr(query_results[1])
    /\ query_results[1].documents[1][1] # query_results[1].documents[1][2]
    /\ k = 2
    /\ OutLen = 2
    /\ merge_and_sort_query_results(WithDuplicate(query_results, 1, 2), k, reverse) = merged

\* no result set of the input holds a candidate that is a str
NoCandidates ==
    \A i \in 1..Len(query_results) :
        \A j \in 1..ZipLen(query_results[i]) : ~IsStr(query_results[i].documents[1][j])

\* C17: the merge of no result sets, or of result sets without candidates, is
\* the well-formed empty result: distances, documents and metadatas are
\* present and each holds one empty list; no merge returns None or a dict
\* without one of the three fields.
C17_EmptyIsWellFormed ==
    pc = "merged" =>
        /\ DOMAIN merged = {"distances", "documents", "metadatas"}
        /\ Len(merged.distances) = 1
        /\ Len(merged.documents) = 1
        /\ Len(merged.metadatas) = 1
        /\ NoCandidates =>
              /\ merged.distances = << <<>> >>
              /\ merged.documents = << <<>> >>
              /\ merged.metadatas = << <<>> >>

C17_Witness ==
    /\ pc = "merged"
    /\ Len(query_results) = 2
    /\ ZipLen(query_results[1]) = 0
    /\ ZipLen(query_results[2]) = 1
    /\ NoCandidates
    /\ k = 2
    /\ merged.documents = << <<>> >>

\* C23: in the output of the merge distances, documents and metadatas have
\* one length, and the three values at a position are those of one candidate
\* of the input: the metadata at i names the place in the input where the
\* distance and the document at i stand.
C23_TriplesAligned ==
    pc = "merged" =>
        /\ Len(merged.distances[1]) = Len(merged.documents[1])
        /\ Len(merged.metadatas[1]) = Len(merged.documents[1])
        /\ \A i \in 1..OutLen :
              LET origin == merged.metadatas[1][i]
              IN  /\ origin.task \in 1..Len(query_results)
                  /\ origin.pos \in 1..ZipLen(query_results[origin.task])
                  /\ merged.distances[1][i] =
                        query_results[origin.task].distances[1][origin.pos]
                  /\ merged.documents[1][i] =
                        query_results[origin.task].documents[1][origin.pos]

\* the sort moved a candidate of the second result set in front of one of the first
C23_Witness ==
    /\ pc = "merged"
    /\ Len(query_results) = 2
    /\ OutLen = 2
    /\ merged.metadatas[1][1].task = 2
    /\ merged.metadatas[1][2].task = 1
    /\ merged.distances[1][1] # merged.distances[1][2]
    /\ merged.documents[1][1] # merged.documents[1][2]

(***************************************************************************)
(* One hybrid retrieval: RerankCompressor.compress_documents and            *)
(* query_doc_with_hybrid_search.                                            *)
(***************************************************************************)
\* the thresholds r a caller configures: none, one that drops the weakest
\* candidates, one that drops every candidate
RScores == {0, 2, 4}

\* the vector backends: chroma and one of the others
VectorDbs == {"chroma", "pgvector"}

TextIndex(t) == CASE t = "a" -> 1 [] t = "A" -> 2 [] t = "b" -> 3

\* reranking_function.predict: the score the re-ranker gives a passage for a query
RerankScore(query, t) == ((query + TextIndex(t)) % 3) + 1

\* VECTOR_DB_CLIENT.get(collection_name): the texts of the collection and one
\* metadata mapping per text; collections share the passage "b"
CollectionTexts(collection_name) ==
    IF collection_name % 2 = 1 THEN <<"a", "b">> ELSE <<"b", "A">>

Snapshot(collection_name) ==
    [documents |-> << CollectionTexts(collection_name) >>,
     metadatas |-> << [i \in 1..Len(CollectionTexts(collection_name)) |->
                        [source |-> collection_name, chunk |-> i]] >>]

\* metadata[key] = value
SetItem(metadata, key, value) ==
    [x \in DOMAIN metadata \cup {key} |-> IF x = key THEN value ELSE metadata[x]]

\* metadata.get(key)
GetItem(metadata, key) == IF key \in DOMAIN metadata THEN metadata[key] ELSE NoneValue

ScoreFilterStrict(docs_with_scores, r_score) ==
    IF r_score # 0
    THEN SelectSeq(docs_with_scores, LAMBDA ds : ds[1] > r_score)
    ELSE docs_with_scores

\* if self.r_score: keep the pairs with s >= self.r_score
ScoreFilter(docs_with_scores, r_score) ==
    IF r_score # 0
    THEN SelectSeq(docs_with_scores, LAMBDA ds : ds[1] >= r_score)
    ELSE docs_with_scores

\* scores = self.reranking_function.predict([(query, doc.page_content) ...])
predict(query, documents) ==
    [i \in 1..Len(documents) |-> RerankScore(query, documents[i].page_content)]

\* filters and cuts to top_n without sorting
compress_unsorted(documents, scores, r_score, top_n) ==
    LET docs_with_scores ==
            [i \in 1..Min(Len(documents), Len(scores)) |-> <<scores[i], documents[i]>>]
        result == ScoreFilter(docs_with_scores, r_score)
        top == SubSeq(result, 1, Min(top_n, Len(result)))
    IN  [i \in 1..Len(top) |->
            [page_content |-> top[i][2].page_content,
             metadata |-> SetItem(top[i][2].metadata, "score", top[i][1])]]

\* compress_documents from docs_with_scores = list(zip(documents, scores)) on:
\* the filter, sorted(..., reverse=True), result[: self.top_n] and the score
\* written into the metadata of every document kept; a pair is <<score, document>>
compress_with_scores(documents, scores, r_score, top_n) ==
    LET docs_with_scores ==
            [i \in 1..Min(Len(documents), Len(scores)) |-> <<scores[i], documents[i]>>]
        result == ListSort(ScoreFilter(docs_with_scores, r_score), TRUE)
        top == SubSeq(result, 1, Min(top_n, Len(result)))
    IN  [i \in 1..Len(top) |->
            [page_content |-> top[i][2].page_content,
             metadata |-> SetItem(top[i][2].metadata, "score", top[i][1])]]

\* RerankCompressor.compress_documents
compress_documents(documents, query, r_score, top_n) ==
    compress_with_scores(documents, predict(query, documents), r_score, top_n)

\* the documents the ensemble of the BM25 and the vector retriever hands to the
\* compressor: the passages of the collection, each once
EnsembleDocuments(data) ==
    [i \in 1..Len(data.documents[1]) |->
        [page_content |-> data.documents[1][i], metadata |-> data.metadatas[1][i]]]

\* the dict query_doc_with_hybrid_search builds from the compressed documents
retrieval_dict(docs) ==
    [distances |-> << [i \in 1..Len(docs) |-> GetItem(docs[i].metadata, "score")] >>,
     documents |-> << [i \in 1..Len(docs) |-> StrDoc(docs[i].page_content)] >>,
     metadatas |-> << [i \in 1..Len(docs) |-> docs[i].metadata] >>]

query_doc_with_hybrid_search(collection_name, data, query, kk, k_rer, rr) ==
    retrieval_dict(compress_documents(EnsembleDocuments(data), query, rr, k_rer))

(***************************************************************************)
(* query_collection_with_hybrid_search                                      *)
(***************************************************************************)
\* a future that is not done: it holds neither a result nor an error yet
Pending == [result |-> NoneValue, err |-> NoneValue, pending |-> TRUE]
ErrUnavailable == [exception |-> "Collection data is unavailable."]
ErrHybrid == [exception |-> "hybrid retrieval raised"]

\* tasks = [(collection_name, query) for collection_name in collection_names
\*          for query in queries]
TasksOf(names, qs) ==
    [i \in 1..(Len(names) * Len(qs)) |->
        <<names[((i - 1) \div Len(qs)) + 1], qs[((i - 1) % Len(qs)) + 1]>>]

Tasks == TasksOf(collection_names, queries)

\* goes into the retrieval without looking at the snapshot, which then fails on None
process_query_unchecked(data, collection_name, query, raises, kk, k_rer, rr) ==
    IF raises \/ data = NoneValue
    THEN [result |-> NoneValue, err |-> ErrHybrid]
    ELSE [result |-> query_doc_with_hybrid_search(collection_name, data, query,
                                                  kk, k_rer, rr),
          err |-> NoneValue]

\* process_query: the pair (result, err) of one task; data is
\* collection_data[collection_name], raises says whether
\* query_doc_with_hybrid_search raised
process_query(data, collection_name, query, raises, kk, k_rer, rr) ==
    IF data = NoneValue
    THEN [result |-> NoneValue, err |-> ErrUnavailable]
    ELSE IF raises
         THEN [result |-> NoneValue, err |-> ErrHybrid]
         ELSE [result |-> query_doc_with_hybrid_search(collection_name, data, query,
                                                       kk, k_rer, rr),
               err |-> NoneValue]

\* for result, err in task_results: the list results and the flag error
RECURSIVE GatherResults(_, _)
GatherResults(task_res, n) ==
    IF n = 0 THEN [results |-> <<>>, error |-> FALSE]
    ELSE LET before == GatherResults(task_res, n - 1)
         IN  IF task_res[n].err # NoneValue THEN [before EXCEPT !.error = TRUE]
             ELSE IF task_res[n].result # NoneValue
                  THEN [before EXCEPT !.results = Append(before.results, task_res[n].result)]
                  ELSE before

RaiseOnAnyError(error, results) == error

RaiseNever(error, results) == FALSE

\* if error and not results: raise
ShouldRaise(error, results) == error /\ results = <<>>

\* reverse of the final merge: chroma reports distances, the others similarities
DbReverse(db) == db # "chroma"

\* the part of the call behind the futures: gather, raise or merge
hybrid_finish(task_res, kk, db) ==
    LET g == GatherResults(task_res, Len(task_res))
    IN  IF ShouldRaise(g.error, g.results)
        THEN [returned |-> TRUE, raised |-> TRUE, value |-> NoneValue]
        ELSE [returned |-> TRUE, raised |-> FALSE,
              value |-> merge_and_sort_query_results(g.results, kk, DbReverse(db))]

\* the tasks in the order in which they completed
CompletionOrder == completed

\* task_results = [future.result() for future in future_results]: in the order
\* of submission
CollectOrder == [i \in 1..Len(task_results) |-> i]

MergeIdle ==
    /\ query_results = <<>>
    /\ reverse = FALSE
    /\ merged = EmptyResult

HybridInit ==
    /\ pc = "fetch"
    /\ MergeIdle
    /\ RerankIdle
    /\ EmbedIdle
    /\ SharedIdle
    /\ SourcesIdle
    /\ \E nc, nq \in 0..MaxTasks :
         /\ nc * nq <= MaxTasks
         /\ collection_names = [i \in 1..nc |-> i]
         /\ queries = [j \in 1..nq |-> j]
    /\ k \in {1, MaxK}
    /\ k_reranker = MaxK
    /\ r \in RScores
    /\ vector_db \in VectorDbs
    /\ collection_data = <<>>
    /\ task_results = <<>>
    /\ completed = <<>>
    /\ hybrid_return = NotReturned
    /\ get_calls = <<>>

\* fetches the snapshot once for every task of the collection
GetRequestsPerQuery(names, qs) ==
    [i \in 1..(Len(names) * Len(qs)) |-> names[((i - 1) \div Len(qs)) + 1]]

\* executor.submit(VECTOR_DB_CLIENT.get, collection_name=collection_name)
\* for collection_name in collection_names
GetRequests(names, qs) == names

AnyFutureDone(task_res) == \E t \in 1..Len(task_res) : task_res[t] # Pending

\* [future.result() for future in future_results] has every result only when
\* every future is done
AllFuturesDone(task_res) == \A t \in 1..Len(task_res) : task_res[t] # Pending

\* VECTOR_DB_CLIENT.get(collection_name) and
\* collection_data[collection_name] = future.result(), or None when the get raised
FetchCollection ==
    /\ pc = "fetch"
    /\ Len(get_calls) < Len(GetRequests(collection_names, queries))
    /\ \E ok \in BOOLEAN :
         LET collection_name == GetRequests(collection_names, queries)[Len(get_calls) + 1]
             data == IF ok THEN Snapshot(collection_name) ELSE NoneValue
         IN  /\ get_calls' = Append(get_calls, collection_name)
             /\ collection_data' =
                   IF collection_name <= Len(collection_data)
                   THEN [collection_data EXCEPT ![collection_name] = data]
                   ELSE Append(collection_data, data)
    /\ UNCHANGED <<rerankVars, embedVars, sourcesVars, pc, k, mergeVars, sharedVars, collection_names, queries, k_reranker, r, vector_db,
                   task_results, completed, hybrid_return>>

\* future_results = [executor.submit(process_query, cn, q) for cn, q in tasks]
SubmitTasks ==
    /\ pc = "fetch"
    /\ Len(get_calls) = Len(GetRequests(collection_names, queries))
    /\ task_results' = [i \in 1..Len(Tasks) |-> Pending]
    /\ pc' = "tasks"
    /\ UNCHANGED <<rerankVars, embedVars, sourcesVars, k, mergeVars, sharedVars, collection_names, queries, k_reranker, r, vector_db, get_calls,
                   collection_data, completed, hybrid_return>>

\* one task runs to its end on a worker thread
ProcessQuery(t) ==
    /\ pc = "tasks"
    /\ task_results[t] = Pending
    /\ \E raises \in BOOLEAN :
         task_results' =
            [task_results EXCEPT ![t] =
                process_query(collection_data[Tasks[t][1]], Tasks[t][1], Tasks[t][2],
                              raises, k, k_reranker, r)]
    /\ completed' = Append(completed, t)
    /\ UNCHANGED <<rerankVars, embedVars, sourcesVars, pc, k, mergeVars, sharedVars, collection_names, queries, k_reranker, r, vector_db, get_calls,
                   collection_data, hybrid_return>>

\* every future has its result: gather in CollectOrder, then raise or merge
Collect ==
    /\ pc = "tasks"
    /\ AllFuturesDone(task_results)
    /\ hybrid_return' =
          hybrid_finish([i \in 1..Len(task_results) |-> task_results[CollectOrder[i]]],
                        k, vector_db)
    /\ pc' = "done"
    /\ UNCHANGED <<rerankVars, embedVars, sourcesVars, k, mergeVars, sharedVars, collection_names, queries, k_reranker, r, vector_db, get_calls,
                   collection_data, task_results, completed>>

HybridNext ==
    \/ FetchCollection
    \/ SubmitTasks
    \/ \E t \in 1..Len(task_results) : ProcessQuery(t)
    \/ Collect

SpecHybrid == HybridInit /\ [][HybridNext]_vars

(***************************************************************************)
(* Claims about the hybrid coordinator.                                     *)
(***************************************************************************)
HybridDone == pc = "done"

TaskSucceeded(t) == task_results[t].err = NoneValue
TaskFailed(t) == task_results[t].err # NoneValue

\* the results of the tasks that succeeded, collection-major and query-minor:
\* collection ci and query qi are task (ci - 1) * |queries| + qi
RECURSIVE SuccessesUpTo(_, _)
SuccessesUpTo(ci, qi) ==
    IF ci = 0 THEN <<>>
    ELSE IF qi = 0 THEN SuccessesUpTo(ci - 1, Len(queries))
    ELSE LET t == (ci - 1) * Len(queries) + qi
         IN  SuccessesUpTo(ci, qi - 1) \o
             (IF TaskSucceeded(t) THEN <<task_results[t].result>> ELSE <<>>)

SuccessfulResults == SuccessesUpTo(Len(collection_names), Len(queries))

\* what every task returns when nothing fails, from the arguments of the call alone
RECURSIVE RetrievalsUpTo(_, _)
RetrievalsUpTo(ci, qi) ==
    IF ci = 0 THEN <<>>
    ELSE IF qi = 0 THEN RetrievalsUpTo(ci - 1, Len(queries))
    ELSE Append(RetrievalsUpTo(ci, qi - 1),
                query_doc_with_hybrid_search(collection_names[ci],
                    Snapshot(collection_names[ci]), queries[qi], k, k_reranker, r))

\* C6: a hybrid call over at least one task in which every task fails raises
\* and hands the caller no result, partial or empty.
C6_TotalFailureRaises ==
    (HybridDone /\ Len(Tasks) >= 1 /\ \A t \in 1..Len(Tasks) : TaskFailed(t)) =>
        /\ hybrid_return.raised
        /\ hybrid_return.value = NoneValue

C6_Witness ==
    /\ HybridDone
    /\ Len(Tasks) >= 2
    /\ \A t \in 1..Len(Tasks) : TaskFailed(t)
    /\ \E t \in 1..Len(Tasks) : task_results[t].err = ErrHybrid
    /\ \E t \in 1..Len(Tasks) : task_results[t].err = ErrUnavailable
    /\ hybrid_return.raised

\* C7: when at least one task succeeds the call raises nothing and returns the
\* merge of the results of the tasks that succeeded, whatever the other tasks
\* did; it raises only when no task succeeded.
C7_PartialFailureTolerated ==
    HybridDone =>
        /\ (\E t \in 1..Len(Tasks) : TaskSucceeded(t)) =>
              /\ ~hybrid_return.raised
              /\ hybrid_return.value =
                    merge_and_sort_query_results(SuccessfulResults, k, vector_db # "chroma")
        /\ hybrid_return.raised => \A t \in 1..Len(Tasks) : TaskFailed(t)

C7_Witness ==
    /\ HybridDone
    /\ Len(collection_names) = 3
    /\ Cardinality({c \in 1..3 : collection_data[c] = NoneValue}) = 1
    /\ Cardinality({t \in 1..Len(Tasks) : TaskSucceeded(t)}) = 2
    /\ ~hybrid_return.raised
    /\ Len(hybrid_return.value.documents[1]) >= 2

\* C9: what the call returns is fixed by the arguments and the per-task
\* results, flattened collection-major and query-minor, whatever the order in
\* which the tasks completed.
C9_CompletionOrderIrrelevant ==
    HybridDone =>
        /\ hybrid_return = hybrid_finish(
              [t \in 1..Len(Tasks) |-> task_results[t]], k, vector_db)
        /\ ~hybrid_return.raised =>
              hybrid_return.value =
                 merge_and_sort_query_results(SuccessfulResults, k, vector_db # "chroma")
        /\ (\A t \in 1..Len(Tasks) : TaskSucceeded(t)) =>
              hybrid_return.value =
                 merge_and_sort_query_results(
                    RetrievalsUpTo(Len(collection_names), Len(queries)), k, vector_db # "chroma")

\* the tasks completed in another order than they were submitted, and gathering
\* them in that order would have given another output
C9_Witness ==
    /\ HybridDone
    /\ completed # [i \in 1..Len(Tasks) |-> i]
    /\ ~hybrid_return.raised
    /\ hybrid_return # hybrid_finish(
          [i \in 1..Len(Tasks) |-> task_results[completed[i]]], k, vector_db)

\* C11: when the fetch of a collection's snapshot failed, every task of that
\* collection ends failed as "unavailable" without a hybrid retrieval, and every
\* task of another collection ends as it does when no fetch fails: with the
\* retrieval over its own snapshot, or failed by its own retrieval.
C11_FetchFailureIsolated ==
    \A t \in 1..Len(task_results) :
        task_results[t] # Pending =>
           LET collection_name == Tasks[t][1]
               query == Tasks[t][2]
           IN  IF collection_data[collection_name] = NoneValue
               THEN task_results[t] = [result |-> NoneValue, err |-> ErrUnavailable]
               ELSE \/ task_results[t] = [result |-> NoneValue, err |-> ErrHybrid]
                    \/ task_results[t] =
                          [result |-> query_doc_with_hybrid_search(collection_name,
                                         Snapshot(collection_name), query, k, k_reranker, r),
                           err |-> NoneValue]

C11_Witness ==
    /\ HybridDone
    /\ Len(collection_names) = 2
    /\ Len(queries) = 2
    /\ collection_data[1] = NoneValue
    /\ collection_data[2] # NoneValue
    /\ task_results[1].err = ErrUnavailable
    /\ task_results[2].err = ErrUnavailable
    /\ task_results[3].err = NoneValue
    /\ task_results[4].err = ErrHybrid

\* C12: the snapshot of a collection is fetched once in a call, however many
\* queries the call has: once every task is submitted the gets are exactly the
\* collection names, each once, and no task adds a get.
C12_SnapshotFetchedOnce ==
    /\ \A i, j \in 1..Len(get_calls) : get_calls[i] = get_calls[j] => i = j
    /\ pc \in {"tasks", "done"} => get_calls = collection_names

C12_Witness ==
    /\ HybridDone
    /\ Len(collection_names) = 2
    /\ Len(queries) = 2
    /\ get_calls = <<1, 2>>
    /\ \A t \in 1..Len(Tasks) : TaskSucceeded(t)

\* C19: the call returns or raises only when every task of collections x
\* queries has its one outcome: no future is pending, and each task completed
\* exactly once.
C19_AllTasksAccounted ==
    hybrid_return # NotReturned =>
        /\ Len(task_results) = Len(collection_names) * Len(queries)
        /\ \A t \in 1..Len(task_results) : task_results[t] # Pending
        /\ Len(completed) = Len(task_results)
        /\ \A t \in 1..Len(task_results) :
              Cardinality({i \in 1..Len(completed) : completed[i] = t}) = 1

C19_Witness ==
    /\ hybrid_return # NotReturned
    /\ Len(collection_names) = 2
    /\ Len(queries) = 2
    /\ completed = <<4, 2, 3, 1>>
    /\ hybrid_return.raised

\* the scores of every unique candidate of the successful tasks, highest first
UniqueByScore ==
    merge_and_sort_query_results(SuccessfulResults, Len(Tasks) * MaxK, TRUE).distances[1]

\* the merged result lists the most relevant candidates first and holds the
\* highest-scored min(k, unique) of them
MostRelevantFirst ==
    LET distances == hybrid_return.value.distances[1]
    IN  /\ \A i \in 1..(Len(distances) - 1) : distances[i] >= distances[i + 1]
        /\ distances = SubSeq(UniqueByScore, 1, Min(k, Len(UniqueByScore)))

\* C20: under every vector backend the merged result of the hybrid call, whose
\* scores are re-ranker scores, lists the most relevant candidates first and
\* keeps the k highest-scored unique candidates.
C20_MostRelevantFirst ==
    (HybridDone /\ ~hybrid_return.raised) => MostRelevantFirst

\* under the backends other than chroma the merged result is most relevant first
MostRelevantFirstOffChroma ==
    (HybridDone /\ ~hybrid_return.raised /\ vector_db # "chroma") => MostRelevantFirst

(***************************************************************************)
(* One hybrid retrieval on its own: the compressor over every list of       *)
(* documents and scores within the bounds.  Scores and thresholds are in    *)
(* tenths: 9 is 0.9.                                                        *)
(***************************************************************************)
\* the scores the re-ranker gives: below zero, and 0.4, 0.6, 0.9
RerankOutputs == {-1, 4, 6, 9}

\* the thresholds r: none, 0.5, and 0.6, which one of the scores meets exactly
RerankThresholds == {0, 5, 6}

RerankInit ==
    /\ pc = "rerank"
    /\ MergeIdle
    /\ EmbedIdle
    /\ SharedIdle
    /\ SourcesIdle
    /\ collection_names = <<>>
    /\ queries = <<>>
    /\ vector_db = "chroma"
    /\ collection_data = <<>>
    /\ task_results = <<>>
    /\ completed = <<>>
    /\ hybrid_return = NotReturned
    /\ get_calls = <<>>
    /\ k = MaxK
    /\ k_reranker \in 0..MaxCands
    /\ r \in RerankThresholds
    /\ \E n \in 0..MaxCands :
         /\ ensemble_docs = [i \in 1..n |->
                [page_content |-> i, metadata |-> [source |-> 1, chunk |-> i]]]
         /\ rerank_scores \in [1..n -> RerankOutputs]
    /\ retrieval = NotReturned

\* compression_retriever.invoke(query) and the dict built from what it returns
Retrieve ==
    /\ pc = "rerank"
    /\ retrieval' = retrieval_dict(
                       compress_with_scores(ensemble_docs, rerank_scores, r, k_reranker))
    /\ pc' = "reranked"
    /\ UNCHANGED <<k, mergeVars, hybridVars, embedVars, sharedVars, sourcesVars,
                   ensemble_docs, rerank_scores>>

RerankNext == Retrieve

SpecRerank == RerankInit /\ [][RerankNext]_vars

\* the documents the threshold lets through
Passing == {i \in 1..Len(ensemble_docs) : r = 0 \/ rerank_scores[i] >= r}

\* the documents of the result, by their place in the input
Returned == {retrieval.metadatas[1][j].chunk : j \in 1..Len(retrieval.metadatas[1])}

\* C14: with a nonzero threshold every returned candidate scores at least the
\* threshold and the filter drops no candidate that does; with threshold 0 no
\* candidate is dropped for its score; what is returned is in descending
\* order of score, and only the cut to top_n removes a passing candidate.
C14_ThresholdFilter ==
    pc = "reranked" =>
        LET distances == retrieval.distances[1]
        IN  /\ r # 0 => \A j \in 1..Len(distances) : distances[j] >= r
            /\ Returned \subseteq Passing
            /\ Len(distances) = Min(k_reranker, Cardinality(Passing))
            /\ k_reranker >= Cardinality(Passing) => Returned = Passing
            /\ \A j \in 1..(Len(distances) - 1) : distances[j] >= distances[j + 1]

\* scores 0.9, 0.4, 0.6 with threshold 0.5 give 0.9, 0.6
C14_Witness ==
    /\ pc = "reranked"
    /\ rerank_scores = <<9, 4, 6>>
    /\ r = 5
    /\ k_reranker = 3
    /\ retrieval.distances = << <<9, 6>> >>
    /\ retrieval.documents = << <<StrDoc(1), StrDoc(3)>> >>

SnapshotMapping(at) == [ref |-> TRUE, at |-> at, mapping |-> <<>>]

\* the mapping a holder stands for
Deref(h) == IF h.ref THEN collection_data[1].metadatas[1][h.at] ELSE h.mapping

\* Document(page_content=..., metadata=h)
NewDocument(h) ==
    IF document_keeps_mapping THEN h
    ELSE [ref |-> FALSE, at |-> h.at, mapping |-> Deref(h)]

SharedInit ==
    /\ pc = "tasks"
    /\ MergeIdle
    /\ RerankIdle
    /\ EmbedIdle
    /\ SourcesIdle
    /\ collection_names = <<1>>
    /\ \E nq \in 2..MaxTasks : queries = [j \in 1..nq |-> j]
    /\ k = MaxK
    /\ k_reranker = MaxK
    /\ r \in RScores
    /\ vector_db = "chroma"
    /\ collection_data = << Snapshot(1) >>
    /\ task_results = [j \in 1..Len(queries) |-> Pending]
    /\ completed = <<>>
    /\ hybrid_return = NotReturned
    /\ get_calls = <<1>>
    /\ document_keeps_mapping \in BOOLEAN
    /\ workers = [j \in 1..Len(queries) |->
                    [at |-> "start", docs |-> <<>>, todo |-> <<>>, final |-> <<>>]]

\* create_bm25_retriever builds one Document per text of the snapshot from the
\* mappings of the snapshot; compress_documents scores, filters and sorts them
CreateAndRerank(t) ==
    /\ pc = "tasks"
    /\ workers[t].at = "start"
    /\ LET data == collection_data[1]
           docs == [i \in 1..Len(data.documents[1]) |->
                      [page_content |-> data.documents[1][i],
                       metadata |-> NewDocument(SnapshotMapping(i))]]
           docs_with_scores ==
               [i \in 1..Len(docs) |-> <<RerankScore(queries[t], docs[i].page_content), i>>]
           result == ListSort(ScoreFilter(docs_with_scores, r), TRUE)
       IN  workers' = [workers EXCEPT ![t] =
              [at |-> "attach", docs |-> docs,
               todo |-> SubSeq(result, 1, Min(k_reranker, Len(result))), final |-> <<>>]]
    /\ UNCHANGED <<rerankVars, embedVars, sourcesVars, k, mergeVars, collection_names, queries, k_reranker, r, vector_db, get_calls,
                   collection_data, task_results, completed, hybrid_return,
                   document_keeps_mapping, pc>>

\* one round of: metadata = doc.metadata; metadata["score"] = doc_score;
\* doc = Document(page_content=doc.page_content, metadata=metadata)
AttachScore(t) ==
    /\ pc = "tasks"
    /\ workers[t].at = "attach"
    /\ Len(workers[t].final) < Len(workers[t].todo)
    /\ LET w == workers[t]
           doc_score == w.todo[Len(w.final) + 1][1]
           i == w.todo[Len(w.final) + 1][2]
           h == w.docs[i].metadata
           written == SetItem(Deref(h), "score", doc_score)
       IN  IF h.ref
           THEN /\ collection_data' =
                     [collection_data EXCEPT ![1].metadatas[1][h.at] = written]
                /\ workers' = [workers EXCEPT ![t].final =
                     Append(w.final, [page_content |-> w.docs[i].page_content, metadata |-> h])]
           ELSE /\ collection_data' = collection_data
                /\ workers' = [workers EXCEPT
                     ![t].docs[i].metadata.mapping = written,
                     ![t].final = Append(w.final,
                        [page_content |-> w.docs[i].page_content,
                         metadata |-> [ref |-> FALSE, at |-> h.at, mapping |-> written]])]
    /\ UNCHANGED <<rerankVars, embedVars, sourcesVars, k, mergeVars, collection_names, queries, k_reranker, r, vector_db, get_calls,
                   task_results, completed, hybrid_return, document_keeps_mapping, pc>>

\* compress_documents returns; query_doc_with_hybrid_search reads the score and
\* the metadata of every document into the result of the task
BuildResult(t) ==
    /\ pc = "tasks"
    /\ workers[t].at = "attach"
    /\ Len(workers[t].final) = Len(workers[t].todo)
    /\ LET docs == workers[t].final
       IN  task_results' = [task_results EXCEPT ![t] =
              [result |->
                 [distances |-> << [i \in 1..Len(docs) |->
                                      GetItem(Deref(docs[i].metadata), "score")] >>,
                  documents |-> << [i \in 1..Len(docs) |-> StrDoc(docs[i].page_content)] >>,
                  metadatas |-> << [i \in 1..Len(docs) |-> Deref(docs[i].metadata)] >>],
               err |-> NoneValue]]
    /\ workers' = [workers EXCEPT ![t].at = "returned"]
    /\ completed' = Append(completed, t)
    /\ UNCHANGED <<rerankVars, embedVars, sourcesVars, k, mergeVars, collection_names, queries, k_reranker, r, vector_db, get_calls,
                   collection_data, hybrid_return, document_keeps_mapping, pc>>

SharedNext ==
    \E t \in 1..Len(workers) :
        \/ CreateAndRerank(t)
        \/ AttachScore(t)
        \/ BuildResult(t)

SpecShared == SharedInit /\ [][SharedNext]_vars

\* C10: while the tasks of several queries run against one collection no task
\* writes to state another task reads: the snapshot fetched by the coordinator
\* stays as it was fetched, and the score a task reports for a passage is the
\* score its own query gave that passage.
C10_NoSharedWrites ==
    /\ collection_data[1] = Snapshot(1)
    /\ \A t \in 1..Len(workers) :
          workers[t].at = "returned" =>
             \A i \in 1..Len(task_results[t].result.documents[1]) :
                task_results[t].result.distances[1][i] =
                   RerankScore(queries[t], task_results[t].result.documents[1][i].text)

\* a task's own result is that of query_doc_with_hybrid_search run alone
SharedTaskAlone ==
    ~document_keeps_mapping =>
        /\ collection_data[1] = Snapshot(1)
        /\ \A t \in 1..Len(workers) :
              workers[t].at = "returned" =>
                 task_results[t].result =
                    query_doc_with_hybrid_search(1, Snapshot(1), queries[t], k, k_reranker, r)

\* the score a task reports for a passage is the score of its own query
SharedScoresOwn ==
    \A t \in 1..Len(workers) :
        workers[t].at = "returned" =>
           \A i \in 1..Len(task_results[t].result.documents[1]) :
              task_results[t].result.distances[1][i] =
                 RerankScore(queries[t], task_results[t].result.documents[1][i].text)

(***************************************************************************)
(* get_embedding_function for the engines ollama and openai: the function   *)
(* generate_multiple over a list of texts, slice by slice.                  *)
(***************************************************************************)
\* the texts to embed; a list may hold a text twice
EmbedTexts == {"a", "b"}

\* the embedding the backend gives a text
Embedding(t) == [embedding_of |-> t]

\* takes one text more than the batch size
SliceInclusive(query, start, size) ==
    SubSeq(query, start + 1, Min(start + size + 1, Len(query)))

\* query[i : i + embedding_batch_size], i counted from 0
Slice(query, start, size) == SubSeq(query, start + 1, Min(start + size, Len(query)))

\* func(texts, user=user): generate_embeddings over a list, when the backend
\* answers: one embedding per text, in the order of the texts
func(texts) == [j \in 1..Len(texts) |-> Embedding(texts[j])]

EmbedInit ==
    /\ pc = "embed"
    /\ MergeIdle
    /\ HybridIdle
    /\ RerankIdle
    /\ SharedIdle
    /\ SourcesIdle
    /\ k = MaxK
    /\ \E n \in 0..MaxTexts : query_texts \in [1..n -> EmbedTexts]
    /\ embedding_batch_size \in 1..MaxBatch
    /\ batch_start = 0
    /\ embeddings = <<>>
    /\ func_calls = <<>>
    /\ embedding_return = NotReturned

embedFixed == <<k, mergeVars, hybridVars, rerankVars, sharedVars, sourcesVars,
                query_texts, embedding_batch_size>>

\* one round of the loop: embeddings.extend(func(query[i : i + batch_size]));
\* a backend that fails makes func return None, and extend(None) raises
EmbedBatch ==
    /\ pc = "embed"
    /\ batch_start < Len(query_texts)
    /\ \E ok \in BOOLEAN :
         LET texts == Slice(query_texts, batch_start, embedding_batch_size)
         IN  /\ func_calls' = Append(func_calls,
                    [start |-> batch_start, texts |-> texts, ok |-> ok])
             /\ IF ok
                THEN /\ embeddings' = embeddings \o func(texts)
                     /\ batch_start' = batch_start + embedding_batch_size
                     /\ UNCHANGED <<pc, embedding_return>>
                ELSE /\ embedding_return' =
                          [returned |-> TRUE, raised |-> TRUE, value |-> NoneValue]
                     /\ pc' = "embedded"
                     /\ UNCHANGED <<embeddings, batch_start>>
    /\ UNCHANGED embedFixed

\* the range is exhausted: return embeddings
EmbedReturn ==
    /\ pc = "embed"
    /\ batch_start >= Len(query_texts)
    /\ embedding_return' = [returned |-> TRUE, raised |-> FALSE, value |-> embeddings]
    /\ pc' = "embedded"
    /\ UNCHANGED <<embedFixed, batch_start, embeddings, func_calls>>

EmbedNext ==
    \/ EmbedBatch
    \/ EmbedReturn

SpecEmbed == EmbedInit /\ [][EmbedNext]_vars

\* the texts of the first n calls of func, one after the other
RECURSIVE TextsOfCalls(_)
TextsOfCalls(n) ==
    IF n = 0 THEN <<>> ELSE TextsOfCalls(n - 1) \o func_calls[n].texts

\* C22: the backend is called on consecutive slices of the list, each of at
\* least one and at most batch-size texts, in order and without overlap; when
\* the call returns the slices cover the list exactly once and the result is
\* the embeddings of the slices one after the other: one embedding per text,
\* in the order of the texts.
C22_BatchesCoverInOrder ==
    /\ \A c \in 1..Len(func_calls) :
          /\ Len(func_calls[c].texts) \in 1..embedding_batch_size
          /\ func_calls[c].start = Len(TextsOfCalls(c - 1))
          /\ \A j \in 1..Len(func_calls[c].texts) :
                func_calls[c].texts[j] = query_texts[func_calls[c].start + j]
    /\ (embedding_return # NotReturned /\ ~embedding_return.raised) =>
          /\ TextsOfCalls(Len(func_calls)) = query_texts
          /\ Len(embedding_return.value) = Len(query_texts)
          /\ \A j \in 1..Len(query_texts) :
                embedding_return.value[j] = Embedding(query_texts[j])

\* four texts in batches of three: a slice of three and a slice of one
C22_Witness ==
    /\ pc = "embedded"
    /\ ~embedding_return.raised
    /\ query_texts = <<"a", "b", "b", "a">>
    /\ embedding_batch_size = 3
    /\ Len(func_calls) = 2
    /\ func_calls[2].texts = <<"a">>
    /\ Len(embedding_return.value) = 4

(***************************************************************************)
(* query_doc and query_collection: the plain vector search.                 *)
(***************************************************************************)
\* what the vector index reports for a passage and a query embedding: a
\* distance under chroma, a similarity under the other backends
VectorScore(query, t) == ((2 * query + TextIndex(t)) % 3) + 1

\* query_doc: VECTOR_DB_CLIENT.search(collection_name, [query_embedding], limit=k),
\* the closest passages first
query_doc(collection_name, query, kk, db) ==
    LET texts == CollectionTexts(collection_name)
        scored == ListSort([i \in 1..Len(texts) |-> <<VectorScore(query, texts[i]), i>>],
                           DbReverse(db))
        top == SubSeq(scored, 1, Min(kk, Len(scored)))
    IN  [distances |-> << [i \in 1..Len(top) |-> top[i][1]] >>,
         documents |-> << [i \in 1..Len(top) |-> StrDoc(texts[top[i][2]])] >>,
         metadatas |-> << [i \in 1..Len(top) |->
                            [source |-> collection_name, chunk |-> top[i][2]]] >>]

\* the first query whose embedding_function(query) raises; Len + 1 when none does
FirstBadEmbed(embeds) ==
    IF \E qi \in 1..Len(embeds) : ~embeds[qi]
    THEN CHOOSE qi \in 1..Len(embeds) : ~embeds[qi] /\ \A j \in 1..(qi - 1) : embeds[j]
    ELSE Len(embeds) + 1

\* the (query, collection) pairs of query_collection, query-major; pair n
PlainQuery(names, n) == ((n - 1) \div Len(names)) + 1
PlainCollection(names, n) == ((n - 1) % Len(names)) + 1

\* a falsy collection name is passed over: if collection_name:
Truthy(collection_name) == collection_name # 0

\* the list results after the first n pairs; raises[n] says query_doc raised
RECURSIVE PlainResults(_, _, _, _, _, _)
PlainResults(names, qs, raises, kk, db, n) ==
    IF n = 0 THEN <<>>
    ELSE LET before == PlainResults(names, qs, raises, kk, db, n - 1)
             collection_name == names[PlainCollection(names, n)]
         IN  IF Truthy(collection_name) /\ ~raises[n]
             THEN Append(before, query_doc(collection_name, qs[PlainQuery(names, n)], kk, db))
             ELSE before

\* query_collection: embeds[qi] says embedding_function(queries[qi]) returned;
\* an embedding that raises leaves the function as an exception
query_collection(names, qs, embeds, raises, kk, db) ==
    IF FirstBadEmbed(embeds) <= Len(qs)
    THEN [returned |-> TRUE, raised |-> TRUE, value |-> NoneValue]
    ELSE [returned |-> TRUE, raised |-> FALSE,
          value |-> merge_and_sort_query_results(
                       PlainResults(names, qs, raises, kk, db, Len(names) * Len(qs)),
                       kk, DbReverse(db))]

\* the pairs query_collection got to search, and those whose search returned
PlainTasksRun(names, qs, embeds) ==
    {n \in 1..(Len(names) * Len(qs)) : PlainQuery(names, n) < FirstBadEmbed(embeds)}

PlainTasksOk(names, qs, embeds, raises) ==
    {n \in PlainTasksRun(names, qs, embeds) : ~raises[n]}

(***************************************************************************)
(* get_sources_from_files, for the files that take the retrieval path       *)
(* (no docs, no full context, no bypass, not of type text).                 *)
(***************************************************************************)
\* the collections a file may name
SourceCollections == {1, 2}

SetOf(seq) == {seq[i] : i \in 1..Len(seq)}

\* the orders in which a set may be iterated
Orders(S) == {o \in [1..Cardinality(S) -> S] : \A i, j \in 1..Cardinality(S) : o[i] = o[j] => i = j}

SourcesInit ==
    /\ pc = "file"
    /\ MergeIdle
    /\ RerankIdle
    /\ EmbedIdle
    /\ SharedIdle
    /\ \E n \in 1..MaxFiles :
         \E cols \in [1..n -> (SUBSET SourceCollections) \ {{}}] :
            files = [i \in 1..n |-> [id |-> i, collection_names |-> cols[i]]]
    /\ hybrid_search \in BOOLEAN
    /\ \E nq \in 1..MaxQueries : queries = [j \in 1..nq |-> j]
    /\ k = MaxK
    /\ k_reranker = MaxK
    /\ r \in RScores
    /\ vector_db \in VectorDbs
    /\ collection_names = <<>>
    /\ collection_data = <<>>
    /\ task_results = <<>>
    /\ completed = <<>>
    /\ hybrid_return = NotReturned
    /\ get_calls = <<>>
    /\ file_index = 1
    /\ cur_names = <<>>
    /\ context = NoneValue
    /\ extracted_collections = {}
    /\ relevant_contexts = <<>>
    /\ search_log = <<>>
    /\ sources_return = NotReturned

sourcesFixed == <<k, mergeVars, hybridVars, rerankVars, embedVars, sharedVars, files,
                  hybrid_search>>

\* searches every collection the file names, handled before or not
AllNames(names, extracted) == names

\* set(collection_names).difference(extracted_collections)
RemainingNames(names, extracted) == names \ extracted

\* collection_names = set(collection_names).difference(extracted_collections);
\* a file with none left is skipped
NextFile ==
    /\ pc = "file"
    /\ file_index <= Len(files)
    /\ LET names == RemainingNames(files[file_index].collection_names, extracted_collections)
       IN  IF names = {}
           THEN /\ file_index' = file_index + 1
                /\ UNCHANGED <<pc, cur_names>>
           ELSE /\ \E o \in Orders(names) : cur_names' = o
                /\ pc' = IF hybrid_search THEN "hybrid" ELSE "plain"
                /\ UNCHANGED file_index
    /\ context' = NoneValue
    /\ UNCHANGED <<sourcesFixed, extracted_collections, relevant_contexts, search_log,
                   sources_return>>

\* falls back as well when the hybrid call returned an empty result
NeedsPlainWhenEmpty(hybrid, ctx) == (~hybrid) \/ ctx = NoneValue \/ ctx = EmptyResult

\* if (not hybrid_search) or (context is None)
NeedsPlain(hybrid, ctx) == (~hybrid) \/ ctx = NoneValue

\* context = query_collection_with_hybrid_search(...), None when it raised
HybridSearch ==
    /\ pc = "hybrid"
    /\ \E fetched \in [1..Len(cur_names) -> BOOLEAN],
          raises \in [1..(Len(cur_names) * Len(queries)) -> BOOLEAN] :
          LET tasks == TasksOf([i \in 1..Len(cur_names) |-> i], queries)
              task_res == [t \in 1..Len(tasks) |->
                  process_query(IF fetched[tasks[t][1]]
                                THEN Snapshot(cur_names[tasks[t][1]]) ELSE NoneValue,
                                cur_names[tasks[t][1]], tasks[t][2], raises[t],
                                k, k_reranker, r)]
              ret == hybrid_finish(task_res, k, vector_db)
          IN  /\ context' = ret.value
              /\ pc' = IF NeedsPlain(hybrid_search, ret.value) THEN "plain" ELSE "keep"
              /\ search_log' = Append(search_log,
                    [kind |-> "hybrid", file |-> file_index, names |-> cur_names,
                     raised |-> ret.raised, tasks |-> Len(tasks),
                     succeeded |-> Cardinality({t \in 1..Len(tasks) :
                                                 task_res[t].err = NoneValue})])
    /\ UNCHANGED <<sourcesFixed, file_index, cur_names, extracted_collections,
                   relevant_contexts, sources_return>>

\* context = query_collection(...); an exception is logged and context stays None
PlainSearch ==
    /\ pc = "plain"
    /\ \E embeds \in [1..Len(queries) -> BOOLEAN],
          raises \in [1..(Len(cur_names) * Len(queries)) -> BOOLEAN] :
          LET ret == query_collection(cur_names, queries, embeds, raises, k, vector_db)
          IN  /\ context' = ret.value
              /\ search_log' = Append(search_log,
                    [kind |-> "plain", file |-> file_index, names |-> cur_names,
                     raised |-> ret.raised,
                     tasks |-> Cardinality(PlainTasksRun(cur_names, queries, embeds)),
                     succeeded |-> Cardinality(PlainTasksOk(cur_names, queries, embeds, raises))])
    /\ pc' = "keep"
    /\ UNCHANGED <<sourcesFixed, file_index, cur_names, extracted_collections,
                   relevant_contexts, sources_return>>

\* extracted_collections.extend(collection_names); if context: append it
KeepContext ==
    /\ pc = "keep"
    /\ extracted_collections' = extracted_collections \cup SetOf(cur_names)
    /\ relevant_contexts' =
          IF context # NoneValue
          THEN Append(relevant_contexts, [context |-> context, file |-> files[file_index]])
          ELSE relevant_contexts
    /\ file_index' = file_index + 1
    /\ pc' = "file"
    /\ UNCHANGED <<sourcesFixed, cur_names, context, search_log, sources_return>>

\* the loop over relevant_contexts and return sources
BuildSources ==
    /\ pc = "file"
    /\ file_index > Len(files)
    /\ sources_return' =
          [returned |-> TRUE, raised |-> FALSE,
           sources |-> [i \in 1..Len(relevant_contexts) |->
              [source |-> relevant_contexts[i].file,
               document |-> relevant_contexts[i].context.documents[1],
               metadata |-> relevant_contexts[i].context.metadatas[1],
               distances |-> relevant_contexts[i].context.distances[1]]]]
    /\ pc' = "returned"
    /\ UNCHANGED <<sourcesFixed, file_index, cur_names, context, extracted_collections,
                   relevant_contexts, search_log>>

SourcesNext ==
    \/ NextFile
    \/ HybridSearch
    \/ PlainSearch
    \/ KeepContext
    \/ BuildSources

SpecSources == SourcesInit /\ [][SourcesNext]_vars

\* C8: at the top level, when every retrieval task of every collection and
\* query failed the caller is signalled a failure, and a source with an empty
\* ranked list is handed over only when some search ran and found no match.
C8_TotalFailureSignalled ==
    pc = "returned" =>
        /\ (/\ search_log # <<>>
            /\ \A i \in 1..Len(search_log) :
                  search_log[i].tasks > 0 /\ search_log[i].succeeded = 0)
              => sources_return.raised
        /\ \A i \in 1..Len(sources_return.sources) :
              sources_return.sources[i].document = <<>> =>
                 \E j \in 1..Len(search_log) :
                    /\ search_log[j].file = sources_return.sources[i].source.id
                    /\ search_log[j].succeeded > 0

\* C13: an error inside one task of a coordinator (the dense search, the hybrid
\* retrieval, the embedding of the query) only fails that task: the plain
\* coordinator never leaves with an exception, and every coordinator runs
\* every task of its collections and queries.
C13_TaskErrorsContained ==
    \A i \in 1..Len(search_log) :
        /\ search_log[i].kind = "plain" => ~search_log[i].raised
        /\ search_log[i].tasks = Len(search_log[i].names) * Len(queries)

\* the searches of file f, in the order in which they were issued
SearchesOf(f) == SelectSeq(search_log, LAMBDA e : e.file = f)

\* C18: with hybrid search requested the plain search is issued for a file
\* exactly when its hybrid call raised, which is when every hybrid task failed,
\* and then for the very collections the hybrid call was issued for; a hybrid
\* call that returns, with tasks failed or an empty result, is the only search
\* of its file.
C18_FallbackOnlyOnRaise ==
    (hybrid_search /\ pc \in {"file", "keep", "returned"}) =>
        \A f \in 1..Len(files) :
            LET log == SearchesOf(f)
            IN  log # <<>> =>
                  /\ log[1].kind = "hybrid"
                  /\ log[1].raised <=> (log[1].tasks > 0 /\ log[1].succeeded = 0)
                  /\ IF log[1].raised
                     THEN /\ Len(log) = 2
                          /\ log[2].kind = "plain"
                          /\ log[2].names = log[1].names
                     ELSE Len(log) = 1

C18_Witness ==
    /\ pc = "returned"
    /\ hybrid_search
    /\ Len(files) = 2
    /\ Len(search_log) = 3
    /\ search_log[1].kind = "hybrid" /\ ~search_log[1].raised
    /\ search_log[1].succeeded < search_log[1].tasks
    /\ search_log[2].kind = "hybrid" /\ search_log[2].raised
    /\ search_log[3].kind = "plain" /\ search_log[3].file = 2
    /\ search_log[3].tasks = Len(search_log[3].names) * Len(queries)

\* the searches that were issued for collection c
SearchesFor(c) == {i \in 1..Len(search_log) : c \in SetOf(search_log[i].names)}

\* the collections the files before file f name
NamedBefore(f) == UNION {files[g].collection_names : g \in 1..(f - 1)}

\* the searches for collection c that got to run a task
RanFor(c) == {i \in SearchesFor(c) : search_log[i].tasks > 0}

\* C21 as stated: within one call no collection name is queried more than
\* once.
C21_QueriedOnce ==
    \A c \in SourceCollections : Cardinality(RanFor(c)) <= 1

\* C21, amended: no collection is queried for more than one file.  Every
\* search of a file is for the collections of the file that no earlier file
\* names; a file with none left issues no search and adds no source; a
\* collection is searched once for its file, or twice when the hybrid call
\* raised and the plain search follows as its fallback.
C21_QueriedForOneFile ==
    /\ \A i \in 1..Len(search_log) :
          LET f == search_log[i].file
          IN  /\ SetOf(search_log[i].names) = files[f].collection_names \ NamedBefore(f)
              /\ SetOf(search_log[i].names) # {}
    /\ \A c \in SourceCollections :
          /\ \A i, j \in SearchesFor(c) : search_log[i].file = search_log[j].file
          /\ \A i, j \in SearchesFor(c) :
                i < j => /\ j = i + 1
                         /\ search_log[i].kind = "hybrid"
                         /\ search_log[i].raised
                         /\ search_log[j].kind = "plain"
    /\ pc = "returned" =>
          \A n \in 1..Len(sources_return.sources) :
             files[sources_return.sources[n].source.id].collection_names
                \ NamedBefore(sources_return.sources[n].source.id) # {}

\* the second file names a collection of the first and one of its own, and is
\* searched for its own only
C21_Witness ==
    /\ pc = "returned"
    /\ Len(files) = 2
    /\ files[1].collection_names = {1}
    /\ files[2].collection_names = {1, 2}
    /\ \E i \in 1..Len(search_log) :
          search_log[i].file = 2 /\ search_log[i].names = <<2>>
    /\ Cardinality(SearchesFor(1)) = 1
    /\ Len(sources_return.sources) = 2
====
